---- MODULE Spec2Model ----
(***************************************************************************)
(* Model of PIDScanner (src/pid_scanner.py): two-stage text acquisition,   *)
(* regex pattern extraction, the scan orchestrator and its accessors.      *)
(*                                                                         *)
(* A text is a sequence of one-character strings.  A regular expression is *)
(* a sequence of atoms: a literal character, the digit class "\\d", or a   *)
(* parenthesis (only unbalanced ones occur, which re.compile rejects).     *)
(***************************************************************************)
EXTENDS Integers, Sequences, FiniteSets, TLC

VARIABLES
    config,          \* self.config
    extracted_data,  \* self.extracted_data: {} or the last Scan Record
    scan_config,     \* the configuration scan_pdf read when it produced extracted_data
    last             \* the latest call of a public operation, as its caller sees it

vars == <<config, extracted_data, scan_config, last>>

(***************************************************************************)
(* Bounds of the model and constants of the program.                       *)
(***************************************************************************)
MaxPatterns == 2      \* add_custom_pattern stops growing a pattern list here
MaxMinCount == 1      \* filter_results is called with min_count in 0..MaxMinCount

Threshold == 50       \* len(combined_text.strip()) > 50
PreviewLen == 500     \* combined_text[:500]

None == "None"        \* Python's None, where a category name is expected

(***************************************************************************)
(* Python string operations.                                               *)
(***************************************************************************)
Range(s) == {s[i] : i \in 1..Len(s)}

Rep(c, n) == [i \in 1..n |-> c]

IsSpace(c) == c \in {" ", "\n"}

\* str.strip(): drop leading and trailing whitespace only
Strip(s) ==
    IF \A i \in 1..Len(s) : IsSpace(s[i]) THEN <<>>
    ELSE LET lo == CHOOSE i \in 1..Len(s) :
                     ~IsSpace(s[i]) /\ \A j \in 1..(i - 1) : IsSpace(s[j])
             hi == CHOOSE i \in 1..Len(s) :
                     ~IsSpace(s[i]) /\ \A j \in (i + 1)..Len(s) : IsSpace(s[j])
         IN  SubSeq(s, lo, hi)

\* " ".join(parts)
RECURSIVE Join(_)
Join(parts) ==
    IF parts = <<>> THEN <<>>
    ELSE IF Len(parts) = 1 THEN parts[1]
    ELSE parts[1] \o <<" ">> \o Join(Tail(parts))

\* bool(text) of a page text: extract_text() gives None or "" for a page
\* without text, both written <<>> here; any other str is truthy
Truthy(s) == s # <<>>

Lower(c) ==
    CASE c = "P" -> "p"
      [] c = "H" -> "h"
      [] c = "V" -> "v"
      [] OTHER -> c

IsDigit(c) == c \in {"0", "1", "2", "3", "4", "5", "6", "7", "8", "9"}

(***************************************************************************)
(* re.findall(pattern, text, re.IGNORECASE)                                *)
(***************************************************************************)
\* re.compile raises re.error on an unbalanced parenthesis
ReError(pattern) ==
    Cardinality({i \in 1..Len(pattern) : pattern[i] = "("})
        # Cardinality({i \in 1..Len(pattern) : pattern[i] = ")"})

AtomMatches(atom, c) ==
    IF atom = "\\d" THEN IsDigit(c) ELSE Lower(atom) = Lower(c)

\* the pattern matches the text at position i (every atom consumes one character)
MatchAt(pattern, text, i) ==
    /\ i + Len(pattern) - 1 <= Len(text)
    /\ \A k \in 1..Len(pattern) : AtomMatches(pattern[k], text[i + k - 1])

\* leftmost, non-overlapping matches of a non-empty pattern from position i
\* on: the scan resumes right after each match
RECURSIVE FindFrom(_, _, _)
FindFrom(pattern, text, i) ==
    LET found == {j \in i..Len(text) : MatchAt(pattern, text, j)}
    IN  IF found = {} THEN <<>>
        ELSE LET j == CHOOSE m \in found : \A n \in found : m <= n
             IN  <<SubSeq(text, j, j + Len(pattern) - 1)>>
                    \o FindFrom(pattern, text, j + Len(pattern))

\* the empty pattern matches the empty string at every position, the end of
\* the text included
FindAll(pattern, text) ==
    IF pattern = <<>> THEN [j \in 1..(Len(text) + 1) |-> <<>>]
    ELSE FindFrom(pattern, text, 1)

(***************************************************************************)
(* Texts, patterns and documents the operations are exercised with.        *)
(***************************************************************************)
Sp == <<" ">>
TagP == <<"P", "-", "1">>
TagPl == <<"p", "-", "1">>
TagHV == <<"H", "V", "-", "2">>
Tags == TagP \o Sp \o TagPl \o Sp \o TagHV \o Sp \o TagP

\* t followed by filler up to n characters
Fill(t, n) == t \o Rep("x", n - Len(t))

Long51 == Fill(Tags \o Sp, Threshold + 1)
Exact50 == Fill(Tags \o Sp, Threshold)
Half25 == Fill(TagHV \o Sp, Threshold \div 2)
WsOnly == <<" ", "\n", " ">>
Padded == Rep(" ", 3) \o Fill(Tags \o Sp, Threshold - 2) \o Rep(" ", 3)
Sparse == TagP \o Rep(" ", Threshold - 4) \o TagHV
LongPreview == Fill(Tags \o Sp, PreviewLen + 1)
ExactPreview == Fill(Tags \o Sp, PreviewLen)

OcrA == TagP \o <<"\n">>
OcrB == TagHV \o Sp \o TagHV \o <<"\n">>
OcrWs == <<"\n">>

PTag == <<"P", "-", "\\d">>
PHv == <<"H", "V", "-", "\\d">>
PEmpty == <<>>
PBad == <<"(">>

Ok(t) == [err |-> FALSE, text |-> t]
Err == [err |-> TRUE, text |-> <<>>]

\* A PDF as the three backends see it: pages[i] is what extract_text() gives
\* for page i, readerFail = k > 0 makes the text-layer reader raise when it
\* gets to page k (k = 1: the file cannot be opened), rasterOk tells whether
\* convert_from_path succeeds, ocr[i] is what image_to_string does on page i.
Doc(pages, readerFail, rasterOk, ocr) ==
    [pages |-> pages, readerFail |-> readerFail, rasterOk |-> rasterOk, ocr |-> ocr]

Docs ==
    << Doc(<<Long51>>, 0, TRUE, <<Ok(OcrB)>>),
       Doc(<<Half25, Half25>>, 0, TRUE, <<Ok(OcrA), Ok(OcrA)>>),
       Doc(<<Exact50>>, 0, TRUE, <<Ok(OcrA)>>),
       Doc(<<<<>>, <<>>>>, 0, TRUE, <<Ok(OcrA), Ok(OcrB)>>),
       Doc(<<WsOnly, <<>>, <<>>>>, 0, TRUE, <<Ok(OcrA), Err, Ok(OcrB)>>),
       Doc(<<<<>>, <<>>>>, 0, FALSE, <<Ok(OcrA), Ok(OcrB)>>),
       Doc(<<Long51, Long51>>, 1, TRUE, <<Ok(OcrWs), Ok(OcrA)>>),
       Doc(<<Long51, Long51>>, 2, TRUE, <<Ok(OcrA), Ok(OcrA)>>),
       Doc(<<<<>>>>, 0, TRUE, <<Ok(OcrWs)>>),
       Doc(<<LongPreview>>, 0, TRUE, <<Ok(OcrA)>>),
       Doc(<<ExactPreview>>, 0, TRUE, <<Ok(OcrA)>>),
       Doc(<<Sparse>>, 0, TRUE, <<Ok(OcrA)>>),
       Doc(<<Padded>>, 0, TRUE, <<Ok(OcrA)>>),
       Doc(<<Tags>>, 0, FALSE, <<Ok(OcrA)>>),
       Doc(<<Long51, <<>>>>, 0, TRUE, <<Ok(OcrA), Ok(OcrA)>>) >>

DocIds == 1..Len(Docs)

\* the documents scanned where the accessors are exercised: a text layer, OCR
\* of two pages, and no text at all
MainDocs == {1, 4, 9}

ExistingPath == "pid.pdf"
MissingPath == "missing.pdf"
Paths == {ExistingPath, MissingPath}

\* os.path.exists(pdf_path)
PathExists(path) == path = ExistingPath

(***************************************************************************)
(* extract_text_from_pdf                                                   *)
(***************************************************************************)
\* Method 1: the pages the reader gets through before it raises, and of
\* those the ones with text
ReaderPages(doc) ==
    IF doc.readerFail = 0 THEN Len(doc.pages) ELSE doc.readerFail - 1

RECURSIVE Stage1From(_, _)
Stage1From(doc, i) ==
    IF i > ReaderPages(doc) THEN <<>>
    ELSE IF Truthy(doc.pages[i]) THEN <<doc.pages[i]>> \o Stage1From(doc, i + 1)
    ELSE Stage1From(doc, i + 1)

Stage1(doc) == Stage1From(doc, 1)

\* the threshold test on the combined text as it is, not stripped
MeaningfulUnstripped(text_content) ==
    /\ text_content # <<>>
    /\ Len(Join(text_content)) > Threshold

\* the threshold test off by one
MeaningfulOffByOne(text_content) ==
    /\ text_content # <<>>
    /\ Len(Strip(Join(text_content))) > Threshold + 1

\* the text-layer result is kept: some page had text and the combined text,
\* stripped, is longer than the threshold
Meaningful(text_content) ==
    /\ text_content # <<>>
    /\ Len(Strip(Join(text_content))) > Threshold

\* the OCR loop forgetting the texts it has when a page raises
RECURSIVE OcrLoopDropsOnError(_, _, _, _)
OcrLoopDropsOnError(doc, i, calls, texts) ==
    IF i > Len(doc.ocr) THEN [calls |-> calls, texts |-> texts]
    ELSE IF doc.ocr[i].err THEN [calls |-> Append(calls, i), texts |-> <<>>]
    ELSE OcrLoopDropsOnError(doc, i + 1, Append(calls, i),
                             IF Strip(doc.ocr[i].text) # <<>>
                             THEN Append(texts, doc.ocr[i].text) ELSE texts)

\* the OCR loop keeping every recognized text that is not the empty string
RECURSIVE OcrLoopKeepsBlank(_, _, _, _)
OcrLoopKeepsBlank(doc, i, calls, texts) ==
    IF i > Len(doc.ocr) THEN [calls |-> calls, texts |-> texts]
    ELSE IF doc.ocr[i].err THEN [calls |-> Append(calls, i), texts |-> texts]
    ELSE OcrLoopKeepsBlank(doc, i + 1, Append(calls, i),
                           IF Truthy(doc.ocr[i].text)
                           THEN Append(texts, doc.ocr[i].text) ELSE texts)

\* Method 2, the loop over the rasterized pages: the first exception leaves
\* the loop (the try is around the whole loop); calls lists the pages handed
\* to the OCR engine, texts the recognized texts kept
RECURSIVE OcrLoop(_, _, _, _)
OcrLoop(doc, i, calls, texts) ==
    IF i > Len(doc.ocr) THEN [calls |-> calls, texts |-> texts]
    ELSE IF doc.ocr[i].err THEN [calls |-> Append(calls, i), texts |-> texts]
    ELSE OcrLoop(doc, i + 1, Append(calls, i),
                 IF Strip(doc.ocr[i].text) # <<>>
                 THEN Append(texts, doc.ocr[i].text) ELSE texts)

Stage2(doc, ocr_settings) ==
    IF "dpi" \notin DOMAIN ocr_settings
    THEN [raster_calls |-> 0, ocr_calls |-> <<>>, texts |-> <<>>]
    ELSE IF ~doc.rasterOk
    THEN [raster_calls |-> 1, ocr_calls |-> <<>>, texts |-> <<>>]
    ELSE IF ~({"preprocessing", "tesseract_config"} \subseteq DOMAIN ocr_settings)
    THEN [raster_calls |-> 1, ocr_calls |-> <<>>, texts |-> <<>>]
    ELSE LET loop == OcrLoop(doc, 1, <<>>, <<>>)
         IN  [raster_calls |-> 1, ocr_calls |-> loop.calls, texts |-> loop.texts]

ExtractTextFromPdf(doc, cfg) ==
    LET stage1 == Stage1(doc)
    IN  IF Meaningful(stage1)
        THEN [text_content |-> stage1, stage1 |-> stage1, fallback |-> FALSE,
              reader_calls |-> 1, raster_calls |-> 0, ocr_calls |-> <<>>]
        ELSE LET stage2 == Stage2(doc, cfg["ocr_settings"])
             IN  [text_content |-> stage2.texts, stage1 |-> stage1, fallback |-> TRUE,
                  reader_calls |-> 1,
                  raster_calls |-> stage2.raster_calls, ocr_calls |-> stage2.ocr_calls]

(***************************************************************************)
(* Configurations.                                                         *)
(***************************************************************************)
EmptyDict == <<>>

\* config.json as loaded by __init__
DefaultExtraction ==
    [equipment_tags |-> [enabled |-> TRUE, patterns |-> <<PTag>>],
     valves |-> [enabled |-> TRUE, patterns |-> <<PHv>>]]

DefaultOcr ==
    [dpi |-> 300,
     preprocessing |-> [denoise |-> TRUE, enhance_contrast |-> TRUE, sharpen |-> FALSE],
     tesseract_config |-> "--psm 6"]

DefaultConfig ==
    [extraction_settings |-> DefaultExtraction, ocr_settings |-> DefaultOcr,
     output_format |-> "csv"]

\* an extraction_settings sub-tree a caller supplies: a category without the
\* 'enabled' key whose only pattern is the empty string (what "".split("\n")
\* gives), valves switched off and without the 'patterns' key, and a category
\* with an empty pattern list
SuppliedExtraction ==
    [equipment_tags |-> [patterns |-> <<PEmpty>>],
     valves |-> [enabled |-> FALSE],
     instruments |-> [enabled |-> TRUE, patterns |-> <<>>]]

\* a partial ocr_settings sub-tree
SuppliedOcr == [dpi |-> 150]

\* the arguments update_config is called with
NewConfigs ==
    { [extraction_settings |-> SuppliedExtraction],
      [ocr_settings |-> SuppliedOcr],
      [extraction_settings |-> DefaultExtraction, ocr_settings |-> DefaultOcr,
       output_format |-> "csv"] }

\* the arguments add_custom_pattern is called with
AddCalls == { <<"custom", PHv>>, <<"valves", PBad>> }

\* the arguments filter_results is called with
FilterCategories == {None, "", "valves"}
MinCounts == 0..MaxMinCount

\* settings.get('enabled', True)
IsEnabled(settings) ==
    IF "enabled" \in DOMAIN settings THEN settings["enabled"] ELSE TRUE

\* settings.get('patterns', [])
PatternsOf(settings) ==
    IF "patterns" \in DOMAIN settings THEN settings["patterns"] ELSE <<>>

(***************************************************************************)
(* extract_patterns                                                        *)
(***************************************************************************)
\* the matches list after the loop over the patterns
RECURSIVE Matches(_, _)
Matches(text, patterns) ==
    IF patterns = <<>> THEN <<>>
    ELSE FindAll(Head(patterns), text) \o Matches(text, Tail(patterns))

\* re.findall raises for some pattern of the list
PatternError(patterns) == \E i \in 1..Len(patterns) : ReError(patterns[i])

\* list(S): the elements of a set, each once, in an order the caller cannot rely on
ListsOf(S) ==
    {l \in [1..Cardinality(S) -> S] : \A i, j \in DOMAIN l : l[i] = l[j] => i = j}

\* extract_patterns without the set(): the matches as found
ExtractPatternsNoDedup(text, patterns) == {Matches(text, patterns)}

\* the lists extract_patterns can return: list(set(matches))
ExtractPatterns(text, patterns) == ListsOf(Range(Matches(text, patterns)))

(***************************************************************************)
(* scan_pdf                                                                *)
(***************************************************************************)
\* the loop over the categories without the test of 'enabled'
EnabledCategoriesAll(extraction_settings) == DOMAIN extraction_settings

EnabledCategories(extraction_settings) ==
    {c \in DOMAIN extraction_settings : IsEnabled(extraction_settings[c])}

\* some enabled category makes extract_patterns raise
ScanRaises(cfg) ==
    \E c \in EnabledCategories(cfg["extraction_settings"]) :
        PatternError(PatternsOf(cfg["extraction_settings"][c]))

\* per enabled category, the lists extract_patterns can return for it
CategoryLists(combined_text, extraction_settings) ==
    {<<c, ExtractPatterns(combined_text, PatternsOf(extraction_settings[c]))>> :
        c \in EnabledCategories(extraction_settings)}

\* the results dicts the loop over the categories can build from them
ScanResults(lists) ==
    LET cats == {p[1] : p \in lists}
        entries == UNION {{<<p[1], [count |-> Len(m), items |-> m]>> : m \in p[2]} : p \in lists}
    IN  {r \in [cats -> {e[2] : e \in entries}] : \A c \in cats : <<c, r[c]>> \in entries}

\* the preview cut one character early
RawTextPreviewAtLimit(combined_text) ==
    IF Len(combined_text) >= PreviewLen
    THEN SubSeq(combined_text, 1, PreviewLen) \o <<".", ".", ".">>
    ELSE combined_text

\* combined_text[:500] + "..." if len(combined_text) > 500 else combined_text
RawTextPreview(combined_text) ==
    IF Len(combined_text) > PreviewLen
    THEN SubSeq(combined_text, 1, PreviewLen) \o <<".", ".", ".">>
    ELSE combined_text

ScanRecord(pdf_path, results, text_content) ==
    [pdf_path |-> pdf_path,
     extraction_results |-> results,
     total_pages |-> Len(text_content),
     raw_text_preview |-> RawTextPreview(Join(text_content))]

\* no file written
NotWritten == [path |-> None, content |-> None]

\* no call of extract_text_from_pdf
NoAcq == [text_content |-> <<>>, stage1 |-> <<>>, fallback |-> FALSE,
          reader_calls |-> 0, raster_calls |-> 0, ocr_calls |-> <<>>]

\* what is seen of one call: its arguments, the exception it raised ("" for
\* none), what it returned, the file it wrote, and for scan_pdf the document
\* read (0 if none was) and what extract_text_from_pdf did: reader_calls and
\* raster_calls count the calls of pdfplumber.open and convert_from_path,
\* ocr_calls lists the pages given to image_to_string
Call(op, args, error, ret, written, doc, acq) ==
    [op |-> op, args |-> args, error |-> error, ret |-> ret, written |-> written,
     doc |-> doc, acq |-> acq]

\* scan_pdf once the path is known to exist
ScanFound(pdf_path, d) ==
    \E acq \in {ExtractTextFromPdf(Docs[d], config)} :
        IF ScanRaises(config)
        THEN /\ last' = Call("scan_pdf", <<pdf_path>>, "re.error", None, NotWritten, d, acq)
             /\ UNCHANGED <<config, extracted_data, scan_config>>
        ELSE \E lists \in {CategoryLists(Join(acq.text_content),
                                         config["extraction_settings"])} :
             \E results \in ScanResults(lists) :
                /\ extracted_data' = ScanRecord(pdf_path, results, acq.text_content)
                /\ scan_config' = config
                /\ last' = Call("scan_pdf", <<pdf_path>>, "", extracted_data', NotWritten, d, acq)
                /\ UNCHANGED config

\* scan_pdf clearing the previous record before it looks at the path
ScanPdfResetsFirst(pdf_path, d) ==
    IF ~PathExists(pdf_path)
    THEN /\ last' = Call("scan_pdf", <<pdf_path>>, "FileNotFoundError", None, NotWritten, 0, NoAcq)
         /\ extracted_data' = EmptyDict
         /\ UNCHANGED <<config, scan_config>>
    ELSE ScanFound(pdf_path, d)

ScanPdf(pdf_path, d) ==
    IF ~PathExists(pdf_path)
    THEN /\ last' = Call("scan_pdf", <<pdf_path>>, "FileNotFoundError", None, NotWritten, 0, NoAcq)
         /\ UNCHANGED <<config, extracted_data, scan_config>>
    ELSE ScanFound(pdf_path, d)

(***************************************************************************)
(* Accessors and exports.                                                  *)
(***************************************************************************)
\* get_summary leaving out the categories without items
GetSummaryNonZero ==
    /\ last' = Call("get_summary", <<>>, "",
                    IF extracted_data = EmptyDict THEN EmptyDict
                    ELSE [category \in {c \in DOMAIN extracted_data["extraction_results"] :
                                          extracted_data["extraction_results"][c].count > 0} |->
                            extracted_data["extraction_results"][category].count],
                    NotWritten, 0, NoAcq)
    /\ UNCHANGED <<config, extracted_data, scan_config>>

GetSummary ==
    /\ last' = Call("get_summary", <<>>, "",
                    IF extracted_data = EmptyDict THEN EmptyDict
                    ELSE [category \in DOMAIN extracted_data["extraction_results"] |->
                            extracted_data["extraction_results"][category].count],
                    NotWritten, 0, NoAcq)
    /\ UNCHANGED <<config, extracted_data, scan_config>>

\* bool(category): None and "" are falsy
CategoryGiven(category) == category # None /\ category # ""

\* filter_results with an exclusive threshold
FilteredStrict(data, category, min_count) ==
    IF data = EmptyDict THEN EmptyDict
    ELSE LET results == data["extraction_results"]
             kept == {cat \in DOMAIN results :
                        /\ ~(CategoryGiven(category) /\ cat # category)
                        /\ results[cat].count > min_count}
         IN  [cat \in kept |-> results[cat]]

Filtered(data, category, min_count) ==
    IF data = EmptyDict THEN EmptyDict
    ELSE LET results == data["extraction_results"]
             kept == {cat \in DOMAIN results :
                        /\ ~(CategoryGiven(category) /\ cat # category)
                        /\ results[cat].count >= min_count}
         IN  [cat \in kept |-> results[cat]]

FilterResults(category, min_count) ==
    /\ last' = Call("filter_results", <<category, min_count>>, "",
                    Filtered(extracted_data, category, min_count), NotWritten, 0, NoAcq)
    /\ UNCHANGED <<config, extracted_data, scan_config>>

\* the order dicts are iterated in (insertion order)
KeyOrder == <<"equipment_tags", "valves", "instruments", "custom">>

RECURSIVE ItemRows(_, _, _)
ItemRows(category, items, pdf_source) ==
    IF items = <<>> THEN <<>>
    ELSE <<[category |-> category, item |-> Head(items), pdf_source |-> pdf_source]>>
            \o ItemRows(category, Tail(items), pdf_source)

RECURSIVE CsvRows(_, _)
CsvRows(data, k) ==
    IF k > Len(KeyOrder) THEN <<>>
    ELSE (IF KeyOrder[k] \in DOMAIN data["extraction_results"]
          THEN ItemRows(KeyOrder[k], data["extraction_results"][KeyOrder[k]].items,
                        data["pdf_path"])
          ELSE <<>>) \o CsvRows(data, k + 1)

\* export_to_csv refusing a record without items
ExportToCsvNeedsRows(output_path) ==
    /\ IF extracted_data = EmptyDict \/ CsvRows(extracted_data, 1) = <<>>
       THEN last' = Call("export_to_csv", <<output_path>>, "ValueError", None, NotWritten, 0, NoAcq)
       ELSE last' = Call("export_to_csv", <<output_path>>, "", None,
                         [path |-> output_path, content |-> CsvRows(extracted_data, 1)],
                         0, NoAcq)
    /\ UNCHANGED <<config, extracted_data, scan_config>>

ExportToCsv(output_path) ==
    /\ IF extracted_data = EmptyDict
       THEN last' = Call("export_to_csv", <<output_path>>, "ValueError", None, NotWritten, 0, NoAcq)
       ELSE last' = Call("export_to_csv", <<output_path>>, "", None,
                         [path |-> output_path, content |-> CsvRows(extracted_data, 1)],
                         0, NoAcq)
    /\ UNCHANGED <<config, extracted_data, scan_config>>

ExportToJson(output_path) ==
    /\ IF extracted_data = EmptyDict
       THEN last' = Call("export_to_json", <<output_path>>, "ValueError", None, NotWritten, 0, NoAcq)
       ELSE last' = Call("export_to_json", <<output_path>>, "", None,
                         [path |-> output_path, content |-> extracted_data], 0, NoAcq)
    /\ UNCHANGED <<config, extracted_data, scan_config>>

(***************************************************************************)
(* Configuration changes.                                                  *)
(***************************************************************************)
\* dict.update: the keys of new replace or extend those of old
DictUpdate(old, new) ==
    [k \in DOMAIN old \cup DOMAIN new |-> IF k \in DOMAIN new THEN new[k] ELSE old[k]]

\* update_config merging the supplied sub-trees into the ones there are
UpdateConfigDeep(new_config) ==
    /\ config' = [k \in DOMAIN config \cup DOMAIN new_config |->
                    IF k \notin DOMAIN new_config THEN config[k]
                    ELSE IF k \in DOMAIN config /\ k # "output_format"
                    THEN DictUpdate(config[k], new_config[k])
                    ELSE new_config[k]]
    /\ last' = Call("update_config", <<new_config>>, "", None, NotWritten, 0, NoAcq)
    /\ UNCHANGED <<extracted_data, scan_config>>

\* update_config dropping the results of the previous configuration
UpdateConfigInvalidates(new_config) ==
    /\ config' = DictUpdate(config, new_config)
    /\ extracted_data' = EmptyDict
    /\ last' = Call("update_config", <<new_config>>, "", None, NotWritten, 0, NoAcq)
    /\ UNCHANGED scan_config

UpdateConfig(new_config) ==
    /\ config' = DictUpdate(config, new_config)
    /\ last' = Call("update_config", <<new_config>>, "", None, NotWritten, 0, NoAcq)
    /\ UNCHANGED <<extracted_data, scan_config>>

\* extraction_settings after add_custom_pattern, which raises KeyError when
\* the category is there without a 'patterns' list
WithPattern(extraction_settings, category, pattern) ==
    LET created == IF category \in DOMAIN extraction_settings THEN extraction_settings
                   ELSE DictUpdate(extraction_settings,
                                   [c \in {category} |-> [enabled |-> TRUE, patterns |-> <<>>]])
    IN  [created EXCEPT ![category] =
            [@ EXCEPT !["patterns"] = Append(@, pattern)]]

AddRaises(extraction_settings, category) ==
    /\ category \in DOMAIN extraction_settings
    /\ "patterns" \notin DOMAIN extraction_settings[category]

AddCustomPattern(category, pattern) ==
    LET extraction_settings == config["extraction_settings"]
    IN  IF AddRaises(extraction_settings, category)
        THEN /\ last' = Call("add_custom_pattern", <<category, pattern>>, "KeyError",
                             None, NotWritten, 0, NoAcq)
             /\ UNCHANGED <<config, extracted_data, scan_config>>
        ELSE /\ IF category \in DOMAIN extraction_settings
                THEN Len(extraction_settings[category]["patterns"]) < MaxPatterns
                ELSE TRUE
             /\ config' = [config EXCEPT !["extraction_settings"] =
                              WithPattern(extraction_settings, category, pattern)]
             /\ last' = Call("add_custom_pattern", <<category, pattern>>, "",
                             None, NotWritten, 0, NoAcq)
             /\ UNCHANGED <<extracted_data, scan_config>>

(***************************************************************************)
(* The scanner object and its callers.                                     *)
(***************************************************************************)
Init ==
    /\ config = DefaultConfig
    /\ extracted_data = EmptyDict
    /\ scan_config = EmptyDict
    /\ last = Call("__init__", <<>>, "", None, NotWritten, 0, NoAcq)

ScanExisting == \E d \in MainDocs : ScanPdf(ExistingPath, d)
ScanMissing == ScanPdf(MissingPath, 0)
Summary == GetSummary
Filter == \E category \in FilterCategories, min_count \in MinCounts :
             FilterResults(category, min_count)
ExportCsv == ExportToCsv("extracted_data.csv")
ExportJson == ExportToJson("extracted_data.json")
Update == \E new_config \in NewConfigs : UpdateConfig(new_config)
AddPattern == \E call \in AddCalls : AddCustomPattern(call[1], call[2])

Next ==
    \/ ScanExisting
    \/ ScanMissing
    \/ Summary
    \/ Filter
    \/ ExportCsv
    \/ ExportJson
    \/ Update
    \/ AddPattern

Spec == Init /\ [][Next]_vars

\* text acquisition over every document, under each configuration
ScanAny == \E d \in DocIds : ScanPdf(ExistingPath, d)

AcqNext ==
    \/ ScanAny
    \/ Update

AcqSpec == Init /\ [][AcqNext]_vars

(***************************************************************************)
(* Properties.                                                             *)
(***************************************************************************)
\* the state right after a scan_pdf call that read document Docs[last.doc]
Scanned == last.op = "scan_pdf" /\ last.doc # 0

\* the state right after a scan_pdf call that stored a Scan Record
ScanStored == Scanned /\ last.error = ""

\* the non-empty page texts of the text layer, in page order, as far as the
\* reader gets
TextLayerTexts(doc) ==
    SelectSeq(SubSeq(doc.pages, 1, ReaderPages(doc)), LAMBDA t : t # <<>>)

\* every OCR setting the fallback reads is configured
OcrConfigured ==
    {"dpi", "preprocessing", "tesseract_config"} \subseteq DOMAIN config["ocr_settings"]

\* C1: when the combined text of the text layer, surrounding whitespace
\* apart, is longer than the 50-character threshold, the rasterizer and the
\* OCR engine are not called and the page texts returned (and counted by
\* scan_pdf) are the text-layer page texts in page order.
C1_TextLayerNeverFallsBack ==
    (Scanned /\ Len(Strip(Join(TextLayerTexts(Docs[last.doc])))) > Threshold)
        => /\ last.acq.raster_calls = 0
           /\ last.acq.ocr_calls = <<>>
           /\ last.acq.text_content = TextLayerTexts(Docs[last.doc])
           /\ last.error = "" => extracted_data["total_pages"] = Len(TextLayerTexts(Docs[last.doc]))

\* C1 witness: a two-page document whose pages pass the threshold only joined
C1_Witness ==
    /\ Scanned
    /\ Len(Strip(Join(TextLayerTexts(Docs[last.doc])))) = Threshold + 1
    /\ Len(last.acq.text_content) = 2
    /\ Docs[last.doc].rasterOk

\* C2 (as claimed): when the text layer is absent or only whitespace, the
\* fallback is entered and, the pages once rasterized, the OCR engine is
\* called once per page, in page order.
C2_OcrOnEveryPage ==
    (/\ Scanned
     /\ \A i \in 1..Len(Docs[last.doc].pages) : Strip(Docs[last.doc].pages[i]) = <<>>
     /\ OcrConfigured
     /\ Docs[last.doc].rasterOk)
        => /\ last.acq.fallback
           /\ last.acq.raster_calls = 1
           /\ last.acq.ocr_calls = [i \in 1..Len(Docs[last.doc].ocr) |-> i]

\* C3: scan_pdf of a path that does not exist raises FileNotFoundError,
\* calls no backend and leaves the configuration and the last Scan Record
\* as they were.
C3_MissingPathDoesNothing ==
    [][(last'.op = "scan_pdf" /\ ~PathExists(last'.args[1]))
        => /\ last'.error = "FileNotFoundError"
           /\ last'.acq.reader_calls = 0
           /\ last'.acq.raster_calls = 0
           /\ last'.acq.ocr_calls = <<>>
           /\ config' = config
           /\ extracted_data' = extracted_data]_vars

\* C3 witness: the missing path was scanned after a successful scan
C3_Witness ==
    /\ last.op = "scan_pdf"
    /\ last.error = "FileNotFoundError"
    /\ extracted_data # EmptyDict

\* C4 (as claimed): scan_pdf of an existing path never raises, whatever the
\* configuration and the backends do, and stores the well-formed record it
\* returns.
C4_ExistingPathAlwaysSucceeds ==
    Scanned
        => /\ last.error = ""
           /\ last.ret = extracted_data
           /\ DOMAIN extracted_data =
                {"pdf_path", "extraction_results", "total_pages", "raw_text_preview"}

\* C5 (as claimed): once the OCR loop runs, a page whose OCR fails is the
\* only one skipped: every later page is given to the OCR engine and its
\* non-blank text is among the page texts returned.
C5_LaterPagesStillProcessed ==
    (Scanned /\ last.acq.ocr_calls # <<>>)
        => \A i \in 1..Len(Docs[last.doc].ocr) :
             Docs[last.doc].ocr[i].err
               => \A j \in (i + 1)..Len(Docs[last.doc].ocr) :
                    /\ j \in Range(last.acq.ocr_calls)
                    /\ (~Docs[last.doc].ocr[j].err /\ Strip(Docs[last.doc].ocr[j].text) # <<>>)
                         => Docs[last.doc].ocr[j].text \in Range(last.acq.text_content)

\* the categories a configuration enables: those whose 'enabled' flag is
\* true or absent
EnabledIn(cfg) ==
    {c \in DOMAIN cfg["extraction_settings"] :
        \/ "enabled" \notin DOMAIN cfg["extraction_settings"][c]
        \/ cfg["extraction_settings"][c]["enabled"]}

\* C6: the keys of extraction_results in the last Scan Record are exactly the
\* categories enabled in the configuration the most recent successful scan
\* ran with, whatever was scanned or configured before and after.
C6_KeysAreEnabledAtScan ==
    extracted_data # EmptyDict
        => DOMAIN extracted_data["extraction_results"] = EnabledIn(scan_config)

\* C6 witness: a record made with valves disabled, kept while a later
\* configuration enables valves again
C6_Witness ==
    /\ extracted_data # EmptyDict
    /\ DOMAIN extracted_data["extraction_results"] = {"equipment_tags", "instruments"}
    /\ EnabledIn(config) = {"equipment_tags", "valves", "custom"}

\* the set union of the matches of the patterns against the text
AllMatches(text, patterns) ==
    UNION {Range(FindAll(patterns[i], text)) : i \in 1..Len(patterns)}

NoDuplicates(items) == \A i, j \in 1..Len(items) : items[i] = items[j] => i = j

\* the pattern list of a category of the current configuration
ConfiguredPatterns(c) ==
    IF "patterns" \in DOMAIN config["extraction_settings"][c]
    THEN config["extraction_settings"][c]["patterns"] ELSE <<>>

\* what C7 says of every category of a new Scan Record, the last clause apart
DeduplicatedUnion(c) ==
    LET result == extracted_data["extraction_results"][c]
    IN  /\ NoDuplicates(result.items)
        /\ Range(result.items) = AllMatches(Join(last.acq.text_content), ConfiguredPatterns(c))
        /\ result.count = Len(result.items)

\* C7 (as claimed): in a new Scan Record the items of every category have no
\* duplicate and are the set union of the matches of its patterns, count is
\* their number, and an empty pattern list or an empty text gives count 0 and
\* no items.
C7_DeduplicatedEmptyWhenNoText ==
    ScanStored
        => \A c \in DOMAIN extracted_data["extraction_results"] :
             /\ DeduplicatedUnion(c)
             /\ (ConfiguredPatterns(c) = <<>> \/ Join(last.acq.text_content) = <<>>)
                  => /\ extracted_data["extraction_results"][c].count = 0
                     /\ extracted_data["extraction_results"][c].items = <<>>

\* C7 (amended): as claimed, except that an empty text gives no item other
\* than the empty string, which a pattern matching the empty string
\* contributes (count 1); an empty pattern list gives count 0 and no items.
C7_DeduplicatedUnion ==
    ScanStored
        => \A c \in DOMAIN extracted_data["extraction_results"] :
             /\ DeduplicatedUnion(c)
             /\ ConfiguredPatterns(c) = <<>>
                  => /\ extracted_data["extraction_results"][c].count = 0
                     /\ extracted_data["extraction_results"][c].items = <<>>
             /\ Join(last.acq.text_content) = <<>>
                  => Range(extracted_data["extraction_results"][c].items) \subseteq {<<>>}

\* C7 witness: two patterns of one category match the same substrings, which
\* are in the text twice, and the category holds the substring once
C7_Witness ==
    /\ ScanStored
    /\ "custom" \in DOMAIN extracted_data["extraction_results"]
    /\ Len(ConfiguredPatterns("custom")) = 2
    /\ Len(Matches(Join(last.acq.text_content), ConfiguredPatterns("custom"))) = 4
    /\ extracted_data["extraction_results"]["custom"].count = 1

\* the entries of the last Scan Record
RecordResults ==
    IF extracted_data = EmptyDict THEN EmptyDict ELSE extracted_data["extraction_results"]

\* C8 (as claimed): filter_results returns, unchanged, the entries of the
\* last Scan Record whose count is at least min_count and, when a category is
\* given (anything but None), whose key is that category; nothing before any
\* scan.
C8_FilterByAnyGivenCategory ==
    last.op = "filter_results"
        => /\ DOMAIN last.ret =
                {c \in DOMAIN RecordResults :
                    /\ RecordResults[c].count >= last.args[2]
                    /\ last.args[1] # None => c = last.args[1]}
           /\ \A c \in DOMAIN last.ret : last.ret[c] = RecordResults[c]

\* C8 (amended): as claimed for a non-empty category name; the empty string
\* is treated like no category and filters by min_count alone.
C8_FilterByNonEmptyCategory ==
    last.op = "filter_results"
        => /\ DOMAIN last.ret =
                {c \in DOMAIN RecordResults :
                    /\ RecordResults[c].count >= last.args[2]
                    /\ last.args[1] \notin {None, ""} => c = last.args[1]}
           /\ \A c \in DOMAIN last.ret : last.ret[c] = RecordResults[c]

\* C8 witness: a category filter keeps one of several entries, one of which
\* has a count equal to min_count
C8_Witness ==
    /\ last.op = "filter_results"
    /\ last.args[1] = "valves"
    /\ DOMAIN last.ret = {"valves"}
    /\ last.ret["valves"].count = last.args[2]
    /\ Cardinality(DOMAIN RecordResults) > 1

\* C9: an export raises ValueError and writes nothing as long as no scan has
\* succeeded on this scanner; after a successful scan it raises nothing and
\* writes its file, also when the scan found no text and no items.
C9_ExportNeedsAScan ==
    last.op \in {"export_to_csv", "export_to_json"}
        => IF scan_config = EmptyDict
           THEN last.error = "ValueError" /\ last.written.path = None
           ELSE last.error = "" /\ last.written.path = last.args[1]

\* C9 witness: a CSV export of a record without text and without items
C9_Witness ==
    /\ last.op = "export_to_csv"
    /\ last.error = ""
    /\ extracted_data["total_pages"] = 0
    /\ last.written.content = <<>>

\* C10: get_summary never raises and returns the count of every category of
\* the last Scan Record, and of no other; the empty map before any scan; it
\* changes neither the record nor the configuration.
C10_SummaryIsCounts ==
    /\ [](last.op = "get_summary"
            => /\ last.error = ""
               /\ DOMAIN last.ret = DOMAIN RecordResults
               /\ \A c \in DOMAIN last.ret : last.ret[c] = RecordResults[c].count)
    /\ [][last'.op = "get_summary" => (config' = config /\ extracted_data' = extracted_data)]_vars

\* C10 witness: a summary with a zero and a non-zero count
C10_Witness ==
    /\ last.op = "get_summary"
    /\ \E c \in DOMAIN last.ret : last.ret[c] = 0
    /\ \E c \in DOMAIN last.ret : last.ret[c] > 0

\* C11: update_config and add_custom_pattern leave the Scan Record as it is,
\* so that get_summary, filter_results and the exports that follow still
\* give the categories, counts and items of the configuration the record was
\* made with, not those of the changed configuration.
C11_ConfigChangeKeepsRecord ==
    /\ [][last'.op \in {"update_config", "add_custom_pattern"}
            => extracted_data' = extracted_data]_vars
    /\ []((scan_config # EmptyDict /\ last.op = "get_summary")
            => DOMAIN last.ret = EnabledIn(scan_config))
    /\ []((scan_config # EmptyDict /\ last.op = "filter_results" /\ last.args = <<None, 0>>)
            => DOMAIN last.ret = EnabledIn(scan_config))
    /\ []((scan_config # EmptyDict /\ last.op = "export_to_json")
            => /\ last.written.content = extracted_data
               /\ DOMAIN last.written.content["extraction_results"] = EnabledIn(scan_config))

\* C11 witness: a summary asked after the configuration was changed to enable
\* other categories than the record has
C11_Witness ==
    /\ last.op = "get_summary"
    /\ scan_config # EmptyDict
    /\ EnabledIn(config) # EnabledIn(scan_config)
    /\ DOMAIN last.ret = EnabledIn(scan_config)

\* the combined text of the latest scan
CombinedText == Join(last.acq.text_content)

\* C12 (as claimed): the preview of a new Scan Record is the combined text
\* when that has at most 500 characters and its 500-character prefix
\* otherwise, so it never has more than 500 characters.
C12_PreviewIsPrefix ==
    /\ ScanStored
         => extracted_data["raw_text_preview"] =
              IF Len(CombinedText) <= PreviewLen THEN CombinedText
              ELSE SubSeq(CombinedText, 1, PreviewLen)
    /\ extracted_data # EmptyDict => Len(extracted_data["raw_text_preview"]) <= PreviewLen

\* C12 (amended): the preview is the combined text when that has at most 500
\* characters, and otherwise its 500-character prefix followed by "...", so
\* it never has more than 503 characters.
C12_PreviewIsPrefixWithEllipsis ==
    /\ ScanStored
         => extracted_data["raw_text_preview"] =
              IF Len(CombinedText) <= PreviewLen THEN CombinedText
              ELSE SubSeq(CombinedText, 1, PreviewLen) \o <<".", ".", ".">>
    /\ extracted_data # EmptyDict => Len(extracted_data["raw_text_preview"]) <= PreviewLen + 3

\* C12 witness: a combined text of 501 characters and its preview of 503
C12_Witness ==
    /\ ScanStored
    /\ Len(CombinedText) = PreviewLen + 1
    /\ Len(extracted_data["raw_text_preview"]) = PreviewLen + 3

\* the number of characters of a text that are not whitespace
NonWhitespace(s) == Cardinality({i \in 1..Len(s) : ~IsSpace(s[i])})

\* the page texts returned come from OCR alone
OnlyOcrTexts ==
    \A k \in 1..Len(last.acq.text_content) :
        \E i \in 1..Len(Docs[last.doc].ocr) :
            ~Docs[last.doc].ocr[i].err /\ last.acq.text_content[k] = Docs[last.doc].ocr[i].text

RecognizedPages ==
    {i \in Range(last.acq.ocr_calls) :
        ~Docs[last.doc].ocr[i].err /\ Strip(Docs[last.doc].ocr[i].text) # <<>>}

\* C14 (as claimed): the page texts returned are not empty whenever the text
\* layer gave some non-empty page text or OCR recognized text on some page.
C14_NonEmptyWhenEitherStageHasText ==
    (Scanned /\ (TextLayerTexts(Docs[last.doc]) # <<>> \/ RecognizedPages # {}))
        => last.acq.text_content # <<>>

\* C14 (amended): the page texts returned are not empty exactly when the
\* text layer passed the threshold test or, the text layer discarded, OCR
\* recognized text on some page; text-layer texts under the threshold are
\* not returned, also when OCR gives nothing.
C14_NonEmptyIffStageKept ==
    Scanned
        => (last.acq.text_content # <<>>
              <=> \/ Len(Strip(Join(TextLayerTexts(Docs[last.doc])))) > Threshold
                  \/ RecognizedPages # {})

\* C14 witness: the text layer had text, under the threshold, the rasterizer
\* failed, and nothing is returned
C14_Witness ==
    /\ Scanned
    /\ TextLayerTexts(Docs[last.doc]) # <<>>
    /\ last.acq.raster_calls = 1
    /\ ~Docs[last.doc].rasterOk
    /\ last.acq.text_content = <<>>

\* C15: update_config is a shallow merge: every top-level key of new_config
\* gets the whole supplied value, nested settings the supplied sub-tree leaves
\* out are lost, every other top-level key keeps the value it had, so that
\* step by step each key holds the value of the latest update that supplied
\* it; categories left out of a supplied extraction_settings are not scanned.
C15_ShallowMerge ==
    /\ [][last'.op = "update_config"
            => /\ DOMAIN config' = DOMAIN config \cup DOMAIN last'.args[1]
               /\ \A k \in DOMAIN last'.args[1] : config'[k] = last'.args[1][k]
               /\ \A k \in DOMAIN config \ DOMAIN last'.args[1] : config'[k] = config[k]]_vars
    /\ [](last.op = "update_config"
            => \A k \in DOMAIN last.args[1] :
                  k # "output_format" => DOMAIN config[k] = DOMAIN last.args[1][k])
    /\ []((ScanStored /\ scan_config["extraction_settings"] = SuppliedExtraction)
            => DOMAIN extracted_data["extraction_results"] = EnabledIn([extraction_settings |-> SuppliedExtraction]))

\* C15 witness: a scan under an extraction_settings supplied after the
\* category 'custom' was added and a partial ocr_settings: 'custom' is not
\* scanned any more, the nested OCR settings left out are gone
C15_Witness ==
    /\ ScanStored
    /\ scan_config["extraction_settings"] = SuppliedExtraction
    /\ DOMAIN scan_config["ocr_settings"] = {"dpi"}
    /\ "custom" \notin DOMAIN extracted_data["extraction_results"]
    /\ "equipment_tags" \in DOMAIN extracted_data["extraction_results"]

\* the pages that gave a text by the method finally used
CountedPages ==
    IF last.acq.fallback THEN RecognizedPages
    ELSE {i \in 1..ReaderPages(Docs[last.doc]) : Docs[last.doc].pages[i] # <<>>}

\* C16: total_pages is the number of page texts text acquisition returned,
\* one for each page that gave a text by the method finally used; it is never
\* more than the page count, is less when a page gave no text or was
\* skipped, and is 0 exactly when the combined text is empty.
C16_TotalPagesCountsPageTexts ==
    /\ ScanStored
         => /\ extracted_data["total_pages"] = Len(last.acq.text_content)
            /\ extracted_data["total_pages"] = Cardinality(CountedPages)
            /\ extracted_data["total_pages"] <= Len(Docs[last.doc].pages)
            /\ CountedPages # 1..Len(Docs[last.doc].pages)
                 => extracted_data["total_pages"] < Len(Docs[last.doc].pages)
            /\ extracted_data["total_pages"] = 0 <=> CombinedText = <<>>
    /\ extracted_data # EmptyDict
         => (extracted_data["total_pages"] = 0 <=> extracted_data["raw_text_preview"] = <<>>)

\* C16 witness: a text layer returned with one page of two giving no text
C16_Witness ==
    /\ ScanStored
    /\ ~last.acq.fallback
    /\ \E i \in 1..Len(Docs[last.doc].pages) : Docs[last.doc].pages[i] = <<>>
    /\ extracted_data["total_pages"] = 1
    /\ Len(Docs[last.doc].pages) = 2

====
